---------------------------- MODULE Spec2Model ----------------------------
(***************************************************************************)
(* Model of the Verba streamlit front-end (src/streamlit_rag):              *)
(*   - verba_utils/utils.py      generate_answer, create_conversation_items,*)
(*                               the retrieved-documents session cache      *)
(*   - verba_utils/api_client.py APIClient.health_check / query / generate, *)
(*                               test_api_connection                        *)
(*   - app_pages/chatbot.py      the chatbot page run                       *)
(* Python's None is the empty tuple <<>>, a present value v is <<v>>.       *)
(* Text that is encoded or formatted is a sequence of Unicode code points;  *)
(* opaque texts (backend messages, contexts) are TLA+ strings.              *)
(***************************************************************************)
EXTENDS Integers, Sequences, FiniteSets, TLC

VARIABLES
    pc,                  \* position inside generate_answer
    prompt,              \* generate_answer argument: prompt (code points)
    conversation,        \* generate_answer argument: conversation
    min_arg,             \* generate_answer argument: min_nb_words as passed
    max_arg,             \* generate_answer argument: max_nb_words as passed
    return_documents,    \* generate_answer argument: return_documents
    min_nb_words,        \* local min_nb_words after utils.py:99-102
    max_nb_words,        \* local max_nb_words after utils.py:99-102
    elaborated_question, \* local elaborated_question (UTF-8 bytes)
    attempt_number,      \* health_check attempts made by the retry decorator
    probe,               \* value returned by test_api_connection
    query_response,      \* local query_response (None until assigned)
    response,            \* local response (None until assigned)
    returned,            \* value returned by generate_answer
    calls,               \* transport calls issued so far, in order
    session_state_messages, \* create_conversation_items argument
    conversation_items,  \* value returned by create_conversation_items
    messages,            \* st.session_state["messages"] (None: key absent)
    retrieved_documents, \* st.session_state["retrieved_documents"]
    run_prompt,          \* chatbot page: prompt of the latest page run
    run_conversation,    \* chatbot page: conversation built by that run
    run_kind,            \* chatbot page: UI event of the latest page run
    chosen_prompt,       \* source documents page: the selected prompt
    shown_chunks,        \* source documents page: the chunks displayed
    health_pc,           \* test_api_connection: position in the call
    health_log,          \* outcomes of the health_check attempts, in order
    waits,               \* seconds slept between consecutive attempts
    wait_offset,         \* exponent base of the installed retry library
    connection,          \* value returned by test_api_connection
    backend_key,         \* the OpenAI key held by the backend (None: unset)
    last_call,           \* the latest APIClient call and what it returned
    uploaded_files,      \* document admin page: files in the uploader
    listing,             \* documents held by the backend
    admin_calls,         \* transport calls of the submit handler, in order
    admin_pc,            \* document admin page: position of the handler
    shelves,             \* the shelve files, one per tenant: stored title
    title_call,          \* the latest title operation and what it returned
    stream,              \* fragments the backend sends for one answer
    pulled,              \* fragments received by the streaming loop
    curr_response,       \* chatbot.py:158 curr_response
    full_response,       \* chatbot.py:183 full_response (None until set)
    stream_pc,           \* position of the streaming loop
    page_run,            \* the latest run of an administration page
    run_clients          \* APIClient events of the latest chatbot run

answer_vars == <<pc, prompt, conversation, min_arg, max_arg, return_documents,
                 min_nb_words, max_nb_words, elaborated_question,
                 attempt_number, probe, query_response, response, returned,
                 calls>>

conv_vars == <<session_state_messages, conversation_items>>

session_vars == <<messages, retrieved_documents, run_prompt,
                  run_conversation, run_kind, chosen_prompt, shown_chunks,
                  run_clients>>

health_vars == <<health_pc, health_log, waits, wait_offset, connection>>

client_vars == <<backend_key, last_call>>

upload_vars == <<uploaded_files, listing, admin_calls, admin_pc>>

title_vars == <<shelves, title_call>>

stream_vars == <<stream, pulled, curr_response, full_response, stream_pc>>

page_vars == <<page_run>>

other_vars == <<title_vars, stream_vars, page_vars>>

vars == <<answer_vars, conv_vars, session_vars, health_vars, client_vars,
          upload_vars, other_vars>>

--------------------------------------------------------------------------
(* Bounds of the model *)

\* word counts are drawn from -MaxWords .. MaxWords
MaxWords == 2
\* prompts are code point sequences of at most MaxPromptLen characters
MaxPromptLen == 1
\* create_conversation_items is applied to lists of at most MaxMessages
MaxMessages == 2
\* a chat session submits at most MaxPrompts prompts between two resets
MaxPrompts == 2
\* the uploader of the document admin page holds at most MaxFiles files
MaxFiles == 2
\* the backend streams an answer in at most MaxFragments fragments
MaxFragments == 3

None == <<>>
Some(v) == <<v>>
IsNone(o) == o = <<>>
Get(o) == o[1]

--------------------------------------------------------------------------
(* Text: str(), f-string formatting of an int, UTF-8 encode and decode *)

RECURSIVE NatToStr(_)
\* decimal digits of a natural number as code points ('0' is 48)
NatToStr(n) ==
    IF n < 10 THEN <<48 + n>>
    ELSE NatToStr(n \div 10) \o <<48 + (n % 10)>>

\* f"{i}" for an int i ('-' is 45)
IntToStr(i) == IF i < 0 THEN <<45>> \o NatToStr(0 - i) ELSE NatToStr(i)

\* " Please provide an elaborated answer in "
AppendixHead ==
    <<32, 80, 108, 101, 97, 115, 101, 32, 112, 114, 111, 118, 105, 100,
      101, 32, 97, 110, 32, 101, 108, 97, 98, 111, 114, 97, 116, 101, 100,
      32, 97, 110, 115, 119, 101, 114, 32, 105, 110, 32>>
\* " to "
AppendixTo == <<32, 116, 111, 32>>
\* " words."
AppendixTail == <<32, 119, 111, 114, 100, 115, 46>>

\* UTF-8 bytes of one code point (below 0x10000)
EncodeChar(c) ==
    IF c < 128 THEN <<c>>
    ELSE IF c < 2048 THEN <<192 + (c \div 64), 128 + (c % 64)>>
    ELSE <<224 + (c \div 4096), 128 + ((c \div 64) % 64), 128 + (c % 64)>>

RECURSIVE encode_utf8(_)
\* str.encode("utf-8")
encode_utf8(s) ==
    IF s = <<>> THEN <<>>
    ELSE EncodeChar(Head(s)) \o encode_utf8(Tail(s))

RECURSIVE decode_utf8(_)
\* bytes.decode("utf-8") of well-formed input
decode_utf8(b) ==
    IF b = <<>> THEN <<>>
    ELSE IF b[1] < 128 THEN <<b[1]>> \o decode_utf8(SubSeq(b, 2, Len(b)))
    ELSE IF b[1] < 224
         THEN <<(b[1] - 192) * 64 + (b[2] - 128)>>
              \o decode_utf8(SubSeq(b, 3, Len(b)))
    ELSE <<(b[1] - 224) * 4096 + (b[2] - 128) * 64 + (b[3] - 128)>>
         \o decode_utf8(SubSeq(b, 4, Len(b)))

--------------------------------------------------------------------------
(* Payloads (verba_utils/payloads.py) *)

\* a value of GenerateResponsePayload.system: str | CachedResponse = None
NoSystem == [tag |-> "none", text |-> "", finish_reason |-> "",
             cached |-> FALSE, distance |-> ""]
StrSystem(s) == [tag |-> "str", text |-> s, finish_reason |-> "",
                 cached |-> FALSE, distance |-> ""]
CachedResponse(m, f, c, d) == [tag |-> "cached", text |-> m,
                               finish_reason |-> f, cached |-> c,
                               distance |-> d]

GenerateResponsePayload(sys) == [system |-> sys]

\* QueryResponsePayload: documents default [], context default "", system
\* default None
QueryResponsePayload(docs, ctx, sys) ==
    [documents |-> docs, context |-> ctx, system |-> sys]

GeneratePayload(q, ctx, conv) ==
    [query |-> q, context |-> ctx, conversation |-> conv]

ConversationItem(t, c, w) == [type |-> t, content |-> c, typewriter |-> w]


--------------------------------------------------------------------------
(* Transport client (verba_utils/api_client.py) *)

\* stop_after_attempt(4) of the retry decorator on health_check
StopAfterAttempt == 4

\* what one GET /health attempt can do: raise, answer 200, answer non-200
HealthOutcomes == {"exception", "ok", "non200"}

\* what a POST can do: raise a connection error, answer non-200, answer
\* 200 with a JSON body failing schema validation, answer 200 with a body
\* that is not JSON, answer 200 with a valid body
PostOutcomes ==
    {"conn_error", "non200", "ok_invalid", "ok_not_json", "ok_valid"}

\* make_request (api_client.py:88-103) has no handler: the connection
\* error propagates; so does the error of response.json() on a body that
\* is not JSON, which is not a ValidationError
Propagates(outcome) == outcome \in {"conn_error", "ok_not_json"}

\* a record of the transport log: the operation, what was sent (the query
\* text, or generate's query, context and conversation) and what came back
Call(op, text, ctx, conv, reply) ==
    [op |-> op, text |-> text, context |-> ctx, conversation |-> conv,
     reply |-> reply]

\* the text searched for in error_details by the pages
KeyMarker == "upload a key using /api/set_openai_key"

\* the dict test_api_connection returns for a health_check result:
\* "ok" / "non200" / "non200_key" are returned responses, "json_error" is
\* the error of response.json() on a non-200 body that is not JSON,
\* "retry_error" is the RetryError raised after the last attempt.
\* error_details is the formatted string, as the list of its pieces
test_api_connection(result) ==
    IF result = "ok" THEN [is_ok |-> TRUE]
    ELSE IF result = "non200"
         THEN [is_ok |-> FALSE,
               error_details |-> <<"API health status code : ", "503",
                                   " - API health content : ",
                                   "Verba is starting">>]
    ELSE IF result = "non200_key"
         THEN [is_ok |-> FALSE,
               error_details |-> <<"API health status code : ", "503",
                                   " - API health content : ", KeyMarker>>]
    ELSE IF result = "json_error"
         THEN [is_ok |-> FALSE,
               error_details |-> <<"Connection error : ", "Expecting value",
                                   " Make sure Verba is running or accessible">>]
    ELSE [is_ok |-> FALSE,
          error_details |-> <<"Connection error : ", "RetryError",
                              " Make sure Verba is running or accessible">>]

\* Python "piece in text", on a text given as the list of its pieces
Contains(text, piece) == \E i \in 1..Len(text) : text[i] = piece

\* Python truth value of a dict: true unless it is empty
Truthy(d) == DOMAIN d # {}

DocumentChunk(name, id, score) ==
    [doc_name |-> name, chunk_id |-> id, score |-> score]

\* valid 200 bodies of POST /query
QueryBodies ==
    { QueryResponsePayload(<<DocumentChunk("a.txt", 0, 2)>>, "ctx_a", None),
      QueryResponsePayload(<<>>, "ctx_b", None),
      QueryResponsePayload(<<>>, "",
          Some("key not set, upload a key using /api/set_openai_key")) }

\* APIClient.query: [raised, value]
query(outcome, body) ==
    IF Propagates(outcome) THEN [raised |-> TRUE, value |-> None]
    ELSE IF outcome = "ok_valid" THEN [raised |-> FALSE, value |-> Some(body)]
    ELSE [raised |-> FALSE,
          value |-> Some(QueryResponsePayload(<<>>, "",
              Some(IF outcome = "non200"
                   THEN "Sorry, something went wrong when proceeding your request. Details -> <Response [500]>"
                   ELSE "Sorry, something went wrong when proceeding your request. Details -> <Response [200]>")))]

\* valid 200 bodies of POST /generate, as the value of the system field: a
\* string, the cached variant, or no system key (the field default applies)
GenerateBodies ==
    { StrSystem("An answer"),
      CachedResponse("cached!", "stop", TRUE, "0.1"),
      NoSystem }

\* APIClient.generate: [raised, value]; value None is the missing result of
\* the 200-but-invalid path, which reaches the end of the function
generate(outcome, body) ==
    IF Propagates(outcome) THEN [raised |-> TRUE, value |-> None]
    ELSE IF outcome = "ok_valid"
         THEN [raised |-> FALSE, value |-> Some(GenerateResponsePayload(body))]
    ELSE IF outcome = "ok_invalid" THEN [raised |-> FALSE, value |-> None]
    ELSE [raised |-> FALSE,
          value |-> Some(GenerateResponsePayload(StrSystem(
              "Sorry, something went wrong when proceeding your query (server side). Server error response details : b'...'")))]

\* payloads.py:31-38: a document of the listing; id is "" when the body has
\* no _additional
DocumentSearchQueryResponsePayload(name, id) ==
    [doc_name |-> name, additional |-> [id |-> id]]

\* payloads.py:41-44
SearchQueryResponsePayload(documents, doc_types, current_embedder) ==
    [documents |-> documents, doc_types |-> doc_types,
     current_embedder |-> current_embedder]

\* document lists the backend can hold: empty, one document, two documents
\* in an order that is not alphabetical, two documents of the same name,
\* one document without _additional
Listings ==
    { <<>>,
      <<DocumentSearchQueryResponsePayload("a.txt", "id1")>>,
      <<DocumentSearchQueryResponsePayload("b.txt", "id2"),
        DocumentSearchQueryResponsePayload("a.txt", "id1")>>,
      <<DocumentSearchQueryResponsePayload("a.txt", "id1"),
        DocumentSearchQueryResponsePayload("a.txt", "id3")>>,
      <<DocumentSearchQueryResponsePayload("a.txt", "")>> }

\* valid 200 bodies of POST /get_all_documents
SearchBodies ==
    {SearchQueryResponsePayload(l, IF l = <<>> THEN <<>> ELSE <<"Documentation">>,
                                "ADAEmbedder") : l \in Listings}

\* APIClient.get_all_documents (api_client.py:166-183): [raised, value].
\* The failure path calls SearchQueryResponsePayload([], [], ""): a pydantic
\* model takes keyword arguments only, the call raises TypeError
get_all_documents(outcome, body) ==
    IF Propagates(outcome) THEN [raised |-> TRUE, value |-> None]
    ELSE IF outcome = "ok_valid" THEN [raised |-> FALSE, value |-> Some(body)]
    ELSE [raised |-> TRUE, value |-> None]

\* payloads.py:51-71, reduced to the name and the text of the document
GetDocumentResponsePayload(name, text) ==
    [document |-> [properties |-> [doc_name |-> name, text |-> text]]]

\* valid 200 bodies of POST /get_document
DocumentBodies == {GetDocumentResponsePayload("a.txt", "lorem")}

\* APIClient.get_document (api_client.py:185-200): [raised, value]. The
\* failure path calls GetDocumentResponsePayload({}), a positional argument
\* again: TypeError
get_document(outcome, body) ==
    IF Propagates(outcome) THEN [raised |-> TRUE, value |-> None]
    ELSE IF outcome = "ok_valid" THEN [raised |-> FALSE, value |-> Some(body)]
    ELSE [raised |-> TRUE, value |-> None]

\* payloads.py:114-116: status is an int
LoadResponsePayload(status, status_msg) ==
    [class |-> "LoadResponsePayload", status |-> status,
     status_msg |-> status_msg]

\* payloads.py:132-134: status is a str
APIKeyResponsePayload(status, status_msg) ==
    [class |-> "APIKeyResponsePayload", status |-> status,
     status_msg |-> status_msg]

\* valid 200 bodies of POST /load_data
LoadBodies == {LoadResponsePayload(200, "1 document loaded")}

\* APIClient.load_data (api_client.py:205-227): [raised, value]
load_data(outcome, body) ==
    IF Propagates(outcome) THEN [raised |-> TRUE, value |-> None]
    ELSE IF outcome = "ok_valid" THEN [raised |-> FALSE, value |-> Some(body)]
    ELSE [raised |-> FALSE,
          value |-> Some(LoadResponsePayload(
                      IF outcome = "non200" THEN 500 ELSE 200, "{}"))]

\* APIClient.delete_document (api_client.py:229-239) and reset_cache
\* (api_client.py:162-164): [raised, value], the body is not read
status_is_ok(outcome) ==
    IF outcome = "conn_error" THEN [raised |-> TRUE, value |-> None]
    ELSE [raised |-> FALSE, value |-> Some(outcome # "non200")]

delete_document(outcome) == status_is_ok(outcome)

reset_cache(outcome) == status_is_ok(outcome)

\* APIClient.set_openai_key (api_client.py:241-260): [raised, value]
set_openai_key(outcome, body) ==
    IF Propagates(outcome) THEN [raised |-> TRUE, value |-> None]
    ELSE IF outcome = "ok_valid" THEN [raised |-> FALSE, value |-> Some(body)]
    ELSE [raised |-> FALSE,
          value |-> Some(LoadResponsePayload(
                      IF outcome = "non200" THEN 500 ELSE 200, "{}"))]

\* admin.py:117: res.status == "200"; an int status never equals a str
key_uploaded(res) ==
    res.class = "APIKeyResponsePayload" /\ res.status = "200"

\* a preview that returns the message of the body whatever its status
get_openai_key_preview_any_status(outcome, body) ==
    IF Propagates(outcome) THEN [raised |-> TRUE, value |-> None]
    ELSE [raised |-> FALSE, value |-> Some(body.status_msg)]

\* APIClient.get_openai_key_preview (api_client.py:262-270): [raised, value]
get_openai_key_preview(outcome, body) ==
    IF Propagates(outcome) THEN [raised |-> TRUE, value |-> None]
    ELSE [raised |-> FALSE,
          value |-> Some(IF body.status = "200" THEN body.status_msg ELSE "")]

\* APIClient.unset_openai_key (api_client.py:272-274): [raised, value]
unset_openai_key(outcome, body) ==
    IF Propagates(outcome) THEN [raised |-> TRUE, value |-> None]
    ELSE [raised |-> FALSE, value |-> Some(body.status = "200")]

--------------------------------------------------------------------------
(* generate_answer (verba_utils/utils.py:79-142) *)

\* utils.py:99-102, the resolved max_nb_words
resolve_max_nb_words(mn, mx) ==
    IF IsNone(mx) /\ ~IsNone(mn) THEN Some(Get(mn) * 2) ELSE mx

\* the resolution rounding the half up instead of down
resolve_min_nb_words_round_up(mn, mx) ==
    IF IsNone(mx) /\ ~IsNone(mn) THEN mn
    ELSE IF IsNone(mn) /\ ~IsNone(mx) THEN Some((Get(mx) + 1) \div 2)
    ELSE mn

\* utils.py:99-102, the resolved min_nb_words (the elif branch)
resolve_min_nb_words(mn, mx) ==
    IF IsNone(mx) /\ ~IsNone(mn) THEN mn
    ELSE IF IsNone(mn) /\ ~IsNone(mx) THEN Some(Get(mx) \div 2)
    ELSE mn

\* the appendix tested with the truth value of the bounds instead of
\* "is not None": a bound of 0 counts as missing
question_appendix_truthy(mn, mx) ==
    IF ~IsNone(mn) /\ ~IsNone(mx) /\ Get(mn) # 0 /\ Get(mx) # 0
    THEN AppendixHead \o IntToStr(Get(mn)) \o AppendixTo
         \o IntToStr(Get(mx)) \o AppendixTail
    ELSE <<>>

\* utils.py:105-108
question_appendix(mn, mx) ==
    IF ~IsNone(mn) /\ ~IsNone(mx)
    THEN AppendixHead \o IntToStr(Get(mn)) \o AppendixTo
         \o IntToStr(Get(mx)) \o AppendixTail
    ELSE <<>>

\* the response carrying a fixed text instead of the retrieval-side message
response_on_query_error_generic(qr) ==
    GenerateResponsePayload(StrSystem("Something went wrong"))

\* utils.py:121, the response built from a retrieval-side error
response_on_query_error(qr) == GenerateResponsePayload(StrSystem(Get(qr.system)))

\* utils.py:130-132, the cached variant is replaced by its message
unwrap_cached(resp) ==
    IF resp.system.tag = "cached"
    THEN GenerateResponsePayload(StrSystem(resp.system.text))
    ELSE resp

\* e-acute and the euro sign: 2 and 3 bytes (the appendix is 1-byte text)
Chars == {233, 8364}

RECURSIVE SeqsUpTo(_, _)
SeqsUpTo(S, n) ==
    IF n = 0 THEN {<<>>}
    ELSE LET shorter == SeqsUpTo(S, n - 1)
         IN  shorter \cup {Append(s, c) : s \in shorter, c \in S}

Prompts == SeqsUpTo(Chars, MaxPromptLen)
WordCounts == {None} \cup {Some(n) : n \in (0 - MaxWords)..MaxWords}
Conversations ==
    { <<>>,
      <<ConversationItem("user", "q0", TRUE),
        ConversationItem("system", "a0", FALSE)>> }

\* generate_answer not running
AnswerIdle ==
    /\ pc = "idle"
    /\ prompt = <<>>
    /\ conversation = <<>>
    /\ min_arg = None
    /\ max_arg = None
    /\ return_documents = FALSE
    /\ min_nb_words = None
    /\ max_nb_words = None
    /\ elaborated_question = <<>>
    /\ attempt_number = 0
    /\ probe = None
    /\ query_response = None
    /\ response = None
    /\ returned = None
    /\ calls = <<>>

\* create_conversation_items not called
ConvIdle ==
    /\ session_state_messages = <<>>
    /\ conversation_items = None

\* a fresh streamlit session: no key in st.session_state
SessionFresh ==
    /\ messages = None
    /\ retrieved_documents = None
    /\ run_prompt = None
    /\ run_conversation = None
    /\ run_kind = None
    /\ chosen_prompt = None
    /\ shown_chunks = <<>>
    /\ run_clients = <<>>

\* test_api_connection not called
HealthIdle ==
    /\ health_pc = "idle"
    /\ health_log = <<>>
    /\ waits = <<>>
    /\ wait_offset = 0
    /\ connection = None

\* no APIClient method called, no key uploaded
ClientIdle ==
    /\ backend_key = None
    /\ last_call = None

\* document admin page not displayed
UploadIdle ==
    /\ uploaded_files = <<>>
    /\ listing = <<>>
    /\ admin_calls = <<>>
    /\ admin_pc = "idle"

\* no title operation called, no shelve file written
TitleIdle ==
    /\ shelves = <<>>
    /\ title_call = None

\* the streaming loop not entered
StreamIdle ==
    /\ stream = <<>>
    /\ pulled = 0
    /\ curr_response = <<>>
    /\ full_response = None
    /\ stream_pc = "idle"

\* no administration page displayed
PageIdle == page_run = None

\* nothing outside the specification at hand has happened
OtherIdle == TitleIdle /\ StreamIdle /\ PageIdle

InitAnswer ==
    /\ OtherIdle
    /\ ConvIdle
    /\ SessionFresh
    /\ HealthIdle
    /\ ClientIdle
    /\ UploadIdle
    /\ pc = "resolve"
    /\ prompt \in Prompts
    /\ conversation \in Conversations
    /\ min_arg \in WordCounts
    /\ max_arg \in WordCounts
    /\ return_documents \in BOOLEAN
    /\ min_nb_words = min_arg
    /\ max_nb_words = max_arg
    /\ elaborated_question = <<>>
    /\ attempt_number = 0
    /\ probe = None
    /\ query_response = None
    /\ response = None
    /\ returned = None
    /\ calls = <<>>

\* utils.py:98-111
ResolveWords ==
    /\ pc = "resolve"
    /\ max_nb_words' = resolve_max_nb_words(min_nb_words, max_nb_words)
    /\ min_nb_words' = resolve_min_nb_words(min_nb_words, max_nb_words)
    /\ elaborated_question' =
           encode_utf8(prompt \o question_appendix(min_nb_words', max_nb_words'))
    /\ pc' = "probe"
    /\ UNCHANGED <<prompt, conversation, min_arg, max_arg, return_documents,
                   attempt_number, probe, query_response, response, returned,
                   calls>>
    /\ UNCHANGED <<conv_vars, session_vars, health_vars, client_vars,
                   upload_vars, other_vars>>

\* utils.py:113 / api_client.py:105-113, 281-304: one attempt of
\* health_check under the retry decorator, and test_api_connection's result
\* once health_check returns or gives up
HealthAttempt ==
    /\ pc = "probe"
    /\ attempt_number < StopAfterAttempt
    /\ \E outcome \in HealthOutcomes :
          /\ attempt_number' = attempt_number + 1
          /\ calls' = Append(calls, Call("health", <<>>, "", <<>>, outcome))
          /\ IF outcome = "exception"
             THEN IF attempt_number' = StopAfterAttempt
                  THEN /\ probe' = Some(test_api_connection("retry_error"))
                       /\ pc' = "branch"
                  ELSE /\ probe' = probe
                       /\ pc' = pc
             ELSE /\ probe' = Some(test_api_connection(outcome))
                  /\ pc' = "branch"
    /\ UNCHANGED <<prompt, conversation, min_arg, max_arg, return_documents,
                   min_nb_words, max_nb_words, elaborated_question,
                   query_response, response, returned>>
    /\ UNCHANGED <<conv_vars, session_vars, health_vars, client_vars,
                   upload_vars, other_vars>>

\* utils.py:113-121 and 133-137: the branch on the probe, the query call and
\* the branch on query_response.system
QueryStep ==
    /\ pc = "branch"
    /\ IF Truthy(Get(probe))
       THEN \E outcome \in PostOutcomes, body \in QueryBodies :
              LET r == query(outcome, body) IN
              /\ calls' = Append(calls,
                     Call("query", decode_utf8(elaborated_question), "", <<>>, r))
              /\ IF r.raised
                 THEN /\ pc' = "raised"
                      /\ UNCHANGED <<query_response, response>>
                 ELSE /\ query_response' = r.value
                      /\ IF ~IsNone(Get(r.value).system)
                         THEN /\ response' = Some(response_on_query_error(Get(r.value)))
                              /\ pc' = "return"
                         ELSE /\ response' = response
                              /\ pc' = "generate"
       ELSE /\ response' = Some(GenerateResponsePayload(
                                   StrSystem("Verba API not available")))
            /\ pc' = "return"
            /\ UNCHANGED <<query_response, calls>>
    /\ UNCHANGED <<prompt, conversation, min_arg, max_arg, return_documents,
                   min_nb_words, max_nb_words, elaborated_question,
                   attempt_number, probe, returned>>
    /\ UNCHANGED <<conv_vars, session_vars, health_vars, client_vars,
                   upload_vars, other_vars>>

\* utils.py:123-132: the generate call and the unwrapping of the cached
\* variant; a missing result makes response.system raise AttributeError
GenerateStep ==
    /\ pc = "generate"
    /\ \E outcome \in PostOutcomes, body \in GenerateBodies :
          LET r == generate(outcome, body) IN
          /\ calls' = Append(calls,
                 Call("generate", prompt, Get(query_response).context,
                      conversation, r))
          /\ IF r.raised \/ IsNone(r.value)
             THEN /\ pc' = "raised"
                  /\ response' = response
             ELSE /\ response' = Some(unwrap_cached(Get(r.value)))
                  /\ pc' = "return"
    /\ UNCHANGED <<prompt, conversation, min_arg, max_arg, return_documents,
                   min_nb_words, max_nb_words, elaborated_question,
                   attempt_number, probe, query_response, returned>>
    /\ UNCHANGED <<conv_vars, session_vars, health_vars, client_vars,
                   upload_vars, other_vars>>

\* utils.py:139-142: query_response is unbound when the query was skipped
ReturnStep ==
    /\ pc = "return"
    /\ IF return_documents
       THEN IF IsNone(query_response)
            THEN /\ pc' = "raised"
                 /\ returned' = returned
            ELSE /\ returned' = Some([answer |-> Get(response).system,
                                      documents |-> Some(Get(query_response).documents)])
                 /\ pc' = "done"
       ELSE /\ returned' = Some([answer |-> Get(response).system,
                                 documents |-> None])
            /\ pc' = "done"
    /\ UNCHANGED <<prompt, conversation, min_arg, max_arg, return_documents,
                   min_nb_words, max_nb_words, elaborated_question,
                   attempt_number, probe, query_response, response, calls>>
    /\ UNCHANGED <<conv_vars, session_vars, health_vars, client_vars,
                   upload_vars, other_vars>>

NextAnswer ==
    ResolveWords \/ HealthAttempt \/ QueryStep \/ GenerateStep \/ ReturnStep

SpecAnswer == InitAnswer /\ [][NextAnswer]_vars

--------------------------------------------------------------------------
(* Properties of generate_answer *)

CallsOf(op) == {i \in 1..Len(calls) : calls[i].op = op}
ProbeFailed == ~IsNone(probe) /\ ~Get(probe).is_ok
QueryReturned == ~IsNone(query_response)

\* C1: the health probe precedes every query, and once the probe has
\* reported failure (is_ok false) no query and no generate call is issued
\* and the answer returned is the 'Verba API not available' message.
C1_ProbeFailureShortCircuits ==
    /\ \A i \in CallsOf("query") : \E j \in CallsOf("health") : j < i
    /\ ProbeFailed =>
         /\ CallsOf("query") = {}
         /\ CallsOf("generate") = {}
         /\ pc \notin {"generate", "raised"}
         /\ pc = "done" =>
              Get(returned).answer = StrSystem("Verba API not available")

\* C2: whenever query has returned a response whose system field is not
\* None, generate is never called and the answer returned is that system
\* message.
C2_QueryErrorIsTheAnswer ==
    (QueryReturned /\ ~IsNone(Get(query_response).system)) =>
        /\ CallsOf("generate") = {}
        /\ pc \in {"return", "done"}
        /\ pc = "done" =>
             Get(returned).answer = StrSystem(Get(Get(query_response).system))

C2_Witness ==
    /\ pc = "done"
    /\ QueryReturned
    /\ Get(query_response).system =
          Some("key not set, upload a key using /api/set_openai_key")
    /\ Get(returned).answer.text =
          "key not set, upload a key using /api/set_openai_key"

\* the system text of a generate response: the message of the cached
\* variant as a string, the system value itself otherwise
SystemText(sys) == IF sys.tag = "cached" THEN StrSystem(sys.text) ELSE sys

\* C3: whenever query has returned a response with system = None, the
\* invocation ends having called generate exactly once, after the query,
\* with that response's context and the caller's conversation, and returns
\* the system text of generate's response.
C3_GenerateOnceAndAnswered ==
    (QueryReturned /\ IsNone(Get(query_response).system)
       /\ pc \in {"return", "done", "raised"}) =>
        /\ Cardinality(CallsOf("generate")) = 1
        /\ \A g \in CallsOf("generate") :
              /\ \E q \in CallsOf("query") : q < g
              /\ calls[g].context = Get(query_response).context
              /\ calls[g].conversation = conversation
              /\ pc # "raised"
              /\ ~calls[g].reply.raised
              /\ ~IsNone(calls[g].reply.value)
              /\ pc = "done" =>
                   Get(returned).answer =
                       SystemText(Get(calls[g].reply.value).system)

\* C4: the answer returned by generate_answer is always a plain string,
\* never a cached-response object; when generate returned the cached
\* variant the answer is its message field.
C4_AnswerIsPlainString ==
    pc = "done" =>
        /\ Get(returned).answer.tag = "str"
        /\ \A g \in CallsOf("generate") :
              Get(calls[g].reply.value).system.tag = "cached" =>
                  Get(returned).answer.text =
                      Get(calls[g].reply.value).system.text

\* C5: min_nb_words given alone resolves max_nb_words to twice it;
\* max_nb_words given alone resolves min_nb_words to the floor of its half;
\* when both are given neither changes.
C5_WordBoundsResolved ==
    pc # "resolve" =>
        /\ (~IsNone(min_arg) /\ IsNone(max_arg)) =>
              /\ min_nb_words = min_arg
              /\ max_nb_words = Some(Get(min_arg) + Get(min_arg))
        /\ (IsNone(min_arg) /\ ~IsNone(max_arg)) =>
              /\ max_nb_words = max_arg
              /\ ~IsNone(min_nb_words)
              /\ 2 * Get(min_nb_words) <= Get(max_arg)
              /\ Get(max_arg) < 2 * Get(min_nb_words) + 2
        /\ (~IsNone(min_arg) /\ ~IsNone(max_arg)) =>
              /\ min_nb_words = min_arg
              /\ max_nb_words = max_arg

C5_Witness ==
    /\ pc = "done"
    /\ IsNone(min_arg)
    /\ max_arg = Some(0 - 1)
    /\ min_nb_words = Some(0 - 1)

\* C6: the text sent to query is the prompt followed by the word-count
\* phrase exactly when at least one of min_nb_words / max_nb_words was
\* supplied (both bounds are then resolved), and is the prompt unchanged
\* when neither was supplied.
C6_AppendixIffBoundSupplied ==
    /\ pc # "resolve" =>
         ((~IsNone(min_nb_words) /\ ~IsNone(max_nb_words))
            <=> (~IsNone(min_arg) \/ ~IsNone(max_arg)))
    /\ \A q \in CallsOf("query") :
         IF IsNone(min_arg) /\ IsNone(max_arg)
         THEN calls[q].text = prompt
         ELSE calls[q].text =
                prompt \o AppendixHead \o IntToStr(Get(min_nb_words))
                \o AppendixTo \o IntToStr(Get(max_nb_words)) \o AppendixTail

C6_Witness ==
    /\ CallsOf("query") # {}
    /\ prompt = <<8364>>
    /\ min_arg = Some(0)
    /\ IsNone(max_arg)
    /\ Len(calls[1 + attempt_number].text) > Len(prompt)

--------------------------------------------------------------------------
(* create_conversation_items (verba_utils/utils.py:34-62) *)

\* a message dict of st.session_state["messages"]: each key present or not
Message(t, c, w) == [type |-> t, content |-> c, typewriter |-> w]

MessageDicts ==
    { Message(t, c, w) :
        t \in {None, Some("user"), Some("system")},
        c \in {None, Some("text")},
        w \in {None, Some(TRUE), Some(FALSE)} }

\* ConversationItem(**message) raises ValidationError unless type, content
\* and typewriter are all given
Validates(m) == ~IsNone(m.type) /\ ~IsNone(m.content) /\ ~IsNone(m.typewriter)

\* utils.py:48-51
messages_to_process(msgs) ==
    IF msgs # <<>> /\ msgs[Len(msgs)].typewriter = Some(TRUE)
    THEN SubSeq(msgs, 1, Len(msgs) - 1)
    ELSE msgs

RECURSIVE append_items(_, _)
\* utils.py:53-60, the loop over messages_to_process
append_items(items, msgs) ==
    IF msgs = <<>> THEN items
    ELSE LET message == Head(msgs) IN
         IF ~IsNone(message.typewriter) /\ Validates(message)
         THEN append_items(
                  Append(items, ConversationItem(Get(message.type),
                                                 Get(message.content),
                                                 Get(message.typewriter))),
                  Tail(msgs))
         ELSE append_items(items, Tail(msgs))

\* the variant of the function following its docstring: the last message is
\* ignored when its "typewriter" value is False
create_conversation_items_docstring(msgs) ==
    append_items(<<>>,
        IF msgs # <<>> /\ msgs[Len(msgs)].typewriter = Some(FALSE)
        THEN SubSeq(msgs, 1, Len(msgs) - 1)
        ELSE msgs)

create_conversation_items(msgs) == append_items(<<>>, messages_to_process(msgs))

InitConversation ==
    /\ OtherIdle
    /\ AnswerIdle
    /\ SessionFresh
    /\ HealthIdle
    /\ ClientIdle
    /\ UploadIdle
    /\ session_state_messages \in SeqsUpTo(MessageDicts, MaxMessages)
    /\ conversation_items = None

CreateItems ==
    /\ IsNone(conversation_items)
    /\ conversation_items' = Some(create_conversation_items(session_state_messages))
    /\ UNCHANGED <<session_state_messages, answer_vars, session_vars,
                   health_vars, client_vars, upload_vars, other_vars>>

NextConversation == CreateItems

SpecConversation == InitConversation /\ [][NextConversation]_vars

\* the messages a conversation is built from: all but a last message marked
\* as a pending prompt ("typewriter": True)
Considered(msgs) ==
    IF msgs # <<>> /\ msgs[Len(msgs)].typewriter = Some(TRUE)
    THEN 1..(Len(msgs) - 1)
    ELSE 1..Len(msgs)

\* items is exactly the messages at the positions of kept, in their order
IsProjection(items, msgs, kept) ==
    /\ Len(items) = Cardinality(kept)
    /\ \A k \in 1..Len(items) :
          LET i == CHOOSE i \in kept : Cardinality({j \in kept : j <= i}) = k
          IN  /\ Some(items[k].type) = msgs[i].type
              /\ Some(items[k].content) = msgs[i].content
              /\ Some(items[k].typewriter) = msgs[i].typewriter

--------------------------------------------------------------------------
(* Retrieved-documents session cache (verba_utils/utils.py:145-179) *)

RECURSIVE Reversed(_)
\* reversed(list)
Reversed(s) ==
    IF s = <<>> THEN <<>>
    ELSE Append(Reversed(Tail(s)), Head(s))

RECURSIVE InsertByScore(_, _)
\* insert chunk c into a list sorted by decreasing score, after the chunks
\* whose score is not smaller (sorted is stable under reverse=True)
InsertByScore(c, s) ==
    IF s = <<>> THEN <<c>>
    ELSE IF Head(s).score >= c.score
         THEN <<Head(s)>> \o InsertByScore(c, Tail(s))
         ELSE <<c>> \o s

RECURSIVE sorted_by_score(_)
\* sorted(documents, key=lambda chunk: chunk.score, reverse=True)
sorted_by_score(docs) ==
    IF docs = <<>> THEN <<>>
    ELSE InsertByScore(docs[Len(docs)],
                       sorted_by_score(SubSeq(docs, 1, Len(docs) - 1)))

\* a store keyed by prompt: a record replaces the earlier record of the
\* same prompt
append_documents_keyed_by_prompt(store, p, documents) ==
    Some(Append(IF IsNone(store) THEN <<>>
                ELSE SelectSeq(Get(store), LAMBDA e : e.prompt # p),
                [prompt |-> p, documents |-> documents]))

\* utils.py:145-156: the value of st.session_state["retrieved_documents"]
\* after the call
append_documents_in_session_manager(store, p, documents) ==
    Some(Append(IF IsNone(store) THEN <<>> ELSE Get(store),
                [prompt |-> p, documents |-> documents]))

\* the function without the most-recent-first order: entries oldest first
get_prompt_history_oldest_first(store) ==
    IF IsNone(store) THEN <<>>
    ELSE [i \in 1..Len(Get(store)) |-> Get(store)[i].prompt]

\* utils.py:159-167
get_prompt_history(store) ==
    IF IsNone(store) THEN <<>>
    ELSE LET rev == Reversed(Get(store))
         IN  [i \in 1..Len(rev) |-> rev[i].prompt]

RECURSIVE first_match(_, _)
\* utils.py:176-179, the loop over the entries in the order given
first_match(entries, p) ==
    IF entries = <<>> THEN <<>>
    ELSE IF Head(entries).prompt = p
         THEN sorted_by_score(Head(entries).documents)
         ELSE first_match(Tail(entries), p)

\* the function scanning the entries oldest first
get_retrieved_chunks_oldest_first(store, p) ==
    first_match(IF IsNone(store) THEN <<>> ELSE Get(store), p)

\* utils.py:170-179
get_retrieved_chunks_from_prompt(store, p) ==
    first_match(Reversed(IF IsNone(store) THEN <<>> ELSE Get(store)), p)

--------------------------------------------------------------------------
(* Chatbot page (app_pages/chatbot.py:49-203) and source documents page   *)
(* (app_pages/source_documents.py:24-96), one action per page run         *)

ChatPrompts == {"p1", "p2"}

\* chatbot.py:102-107, the welcome message: no "typewriter" key
WelcomeMessage == Message(Some("system"), Some("Greetings!"), None)

\* the document lists a retrieval may return
DocLists ==
    { <<DocumentChunk("a.txt", 0, 1)>>,
      <<DocumentChunk("a.txt", 0, 1), DocumentChunk("b.txt", 0, 3),
        DocumentChunk("a.txt", 1, 3)>> }

\* what search_documents may return as its search_documents_result: a
\* retrieval with system = None, or a retrieval-side error message
SearchResults ==
    {QueryResponsePayload(d, "ctx", None) : d \in DocLists}
    \cup {QueryResponsePayload(<<>>, "",
              Some("key not set, upload a key using /api/set_openai_key"))}

\* the text a generation may end with, streamed or not
FullResponses == {"", "An answer"}

\* what triggers a page run: a rerun without input, a click on "Reset
\* conversation", or a prompt submitted in the chat input
UiEvents ==
    {[kind |-> "rerun", prompt |-> None], [kind |-> "reset", prompt |-> None]}
    \cup {[kind |-> "submit", prompt |-> Some(p)] : p \in ChatPrompts}

UserMessages(msgs) ==
    {i \in 1..Len(msgs) : msgs[i].type = Some("user")}

InitSession ==
    /\ OtherIdle
    /\ AnswerIdle
    /\ ConvIdle
    /\ SessionFresh
    /\ HealthIdle
    /\ ClientIdle
    /\ UploadIdle

\* a click on "Reset conversation" leaves the session key untouched
reset_conversation_keeps(kind, value) == value

\* chatbot.py:94-99: the "Reset conversation" button deletes the session key
reset_conversation(kind, value) == IF kind = "reset" THEN None ELSE value

\* events of an APIClient: __enter__, a request sent on its session, and
\* __exit__ which closes the session (api_client.py:65-78)
ClientEnter(n) == [event |-> "enter", client |-> n, route |-> ""]
ClientRequest(n, route) == [event |-> "request", client |-> n, route |-> route]
ClientExit(n) == [event |-> "exit", client |-> n, route |-> ""]

\* the APIClient events of one run of chatbot(): the health check client
\* (chatbot.py:69-70), the retrieval client (chatbot.py:135-144) and the
\* generation on the retrieval client (chatbot.py:184-191)
chatbot_clients(is_ok, answering, generating, STREAM) ==
    <<ClientEnter(1), ClientRequest(1, "health"), ClientExit(1)>>
    \o (IF is_ok /\ answering
        THEN <<ClientEnter(2), ClientRequest(2, "query"), ClientExit(2)>>
        ELSE <<>>)
    \o (IF is_ok /\ generating /\ ~STREAM
        THEN <<ClientRequest(2, "generate")>>
        ELSE <<>>)

\* one run of chatbot()
chatbot ==
    \E ui \in UiEvents, STREAM \in BOOLEAN,
       health \in {"ok", "non200", "retry_error"},
       search_documents_result \in SearchResults,
       generated \in FullResponses :
      LET is_verba_responding == test_api_connection(health)
          \* chatbot.py:94-99
          after_reset_msgs == reset_conversation(ui.kind, messages)
          after_reset_docs == reset_conversation(ui.kind, retrieved_documents)
          \* chatbot.py:101-107
          initialised ==
              IF IsNone(after_reset_msgs) THEN <<WelcomeMessage>>
              ELSE Get(after_reset_msgs)
          \* chatbot.py:120-123
          with_prompt ==
              IF ~IsNone(ui.prompt)
              THEN Append(initialised,
                       Message(Some("user"), ui.prompt, Some(TRUE)))
              ELSE initialised
          answering ==
              /\ with_prompt[Len(with_prompt)].type # Some("system")
              /\ ~IsNone(ui.prompt)
          generating == answering /\ IsNone(search_documents_result.system)
          \* chatbot.py:153-155
          built == create_conversation_items(with_prompt)
          \* chatbot.py:197-203
          answered ==
              IF generating /\ generated # ""
              THEN Append(with_prompt,
                       Message(Some("system"), Some(generated), Some(FALSE)))
              ELSE with_prompt
      IN
      /\ ui.kind = "submit" =>
            (~IsNone(messages) =>
                Cardinality(UserMessages(Get(messages))) < MaxPrompts)
      /\ run_clients' = chatbot_clients(is_verba_responding.is_ok, answering,
                                        generating, STREAM)
      /\ IF ~is_verba_responding.is_ok
         THEN UNCHANGED <<messages, retrieved_documents, run_prompt,
                          run_conversation, run_kind>>
         ELSE /\ messages' = Some(answered)
              /\ retrieved_documents' =
                    IF generating /\ ~STREAM
                    THEN append_documents_in_session_manager(
                             after_reset_docs, Get(ui.prompt),
                             search_documents_result.documents)
                    ELSE after_reset_docs
              /\ run_prompt' = ui.prompt
              /\ run_kind' = Some(ui.kind)
              /\ run_conversation' = IF generating THEN Some(built) ELSE None
      /\ UNCHANGED <<chosen_prompt, shown_chunks, answer_vars, conv_vars,
                   health_vars, client_vars, upload_vars, other_vars>>

\* one run of the source documents page with the API responding: the
\* select box offers get_prompt_history() and the chunks of the chosen
\* prompt are displayed
source_documents ==
    /\ ~IsNone(retrieved_documents)
    /\ LET history == get_prompt_history(retrieved_documents) IN
       \E i \in 1..Len(history) :
          /\ chosen_prompt' = Some(history[i])
          /\ shown_chunks' =
                get_retrieved_chunks_from_prompt(retrieved_documents,
                                                 history[i])
    /\ UNCHANGED <<messages, retrieved_documents, run_prompt,
                   run_conversation, run_kind, run_clients, answer_vars,
                   conv_vars, health_vars, client_vars, upload_vars,
                   other_vars>>

NextSession == chatbot \/ source_documents

SpecSession == InitSession /\ [][NextSession]_vars

--------------------------------------------------------------------------
(* Properties of the chat session *)

\* C8: the conversation built for the current prompt holds no user prompt
\* that is still unanswered: every user turn in it is directly followed by
\* the system turn answering it.
C8_NoUnansweredPromptInPayload ==
    ~IsNone(run_conversation) =>
        LET conv == Get(run_conversation) IN
        \A i \in 1..Len(conv) :
            conv[i].type = "user" =>
                (i < Len(conv) /\ conv[i + 1].type = "system")

Entries == IF IsNone(retrieved_documents) THEN <<>> ELSE Get(retrieved_documents)
RecordsOf(p) == {i \in 1..Len(Entries) : Entries[i].prompt = p}
LastRecordOf(p) == CHOOSE i \in RecordsOf(p) : \A j \in RecordsOf(p) : j <= i

\* r holds the same chunks as docs, each as many times
SameChunks(r, docs) ==
    /\ Len(r) = Len(docs)
    /\ \A k \in 1..Len(docs) :
          Cardinality({i \in 1..Len(r) : r[i] = docs[k]})
              = Cardinality({i \in 1..Len(docs) : docs[i] = docs[k]})

\* C9: get_retrieved_chunks_from_prompt(p) is the chunks of the most recent
\* record whose prompt is p, by non-increasing score, and the empty list
\* when p was never recorded.
C9_ChunksOfLatestRecord ==
    \A p \in ChatPrompts \cup {"never asked"} :
        LET r == get_retrieved_chunks_from_prompt(retrieved_documents, p) IN
        IF RecordsOf(p) = {} THEN r = <<>>
        ELSE /\ SameChunks(r, Entries[LastRecordOf(p)].documents)
             /\ \A i, j \in 1..Len(r) : i < j => r[i].score >= r[j].score

C9_Witness ==
    /\ Len(Entries) = 2
    /\ Entries[1] = [prompt |-> "p1",
                     documents |-> <<DocumentChunk("a.txt", 0, 1)>>]
    /\ Entries[2].prompt = "p1"
    /\ Len(Entries[2].documents) = 3
    /\ chosen_prompt = Some("p1")
    /\ shown_chunks = <<DocumentChunk("b.txt", 0, 3),
                        DocumentChunk("a.txt", 1, 3),
                        DocumentChunk("a.txt", 0, 1)>>

\* C10 as stated: get_prompt_history holds each recorded prompt exactly
\* once, the most recently recorded first.
C10_HistoryDistinct ==
    LET h == get_prompt_history(retrieved_documents) IN
    /\ {h[i] : i \in 1..Len(h)} = {Entries[i].prompt : i \in 1..Len(Entries)}
    /\ \A i, j \in 1..Len(h) : i # j => h[i] # h[j]
    /\ \A i, j \in 1..Len(h) :
          i < j => LastRecordOf(h[i]) > LastRecordOf(h[j])

\* C10 amended: get_prompt_history holds one entry per recorded retrieval,
\* the most recently recorded first; a prompt recorded several times
\* appears as many times.
C10_HistoryMostRecentFirst ==
    LET h == get_prompt_history(retrieved_documents) IN
    /\ Len(h) = Len(Entries)
    /\ \A k \in 1..Len(h) : h[k] = Entries[Len(Entries) + 1 - k].prompt

C10_Witness ==
    /\ Len(Entries) = 2
    /\ Entries[1].prompt = "p1"
    /\ Entries[2].prompt = "p2"
    /\ get_prompt_history(retrieved_documents) = <<"p2", "p1">>
    /\ chosen_prompt = Some("p1")

--------------------------------------------------------------------------
(* health_check and its retry decorator, test_api_connection
   (verba_utils/api_client.py:105-113, 281-304) *)

\* wait_exponential(multiplier=1, min=2, max=10)
WaitMultiplier == 1
WaitMin == 2
WaitMax == 10

RECURSIVE Pow2(_)
Pow2(n) == IF n = 0 THEN 1 ELSE 2 * Pow2(n - 1)

Maximum(a, b) == IF a >= b THEN a ELSE b
Minimum(a, b) == IF a <= b THEN a ELSE b

\* seconds slept after attempt n has raised: multiplier * 2^(n - 1 + offset)
\* clamped to [min, max]; the exponent starts at 0 or at 1 depending on the
\* release of the retry library that is installed
wait_exponential(n, offset) ==
    Maximum(WaitMin,
            Minimum(WaitMultiplier * Pow2(n - 1 + offset), WaitMax))

\* a retry policy that gives up one attempt later
stop_after_one_more_attempt(n) == n > StopAfterAttempt

\* stop_after_attempt(4): give up once n attempts have been made
stop_after_attempt(n) == n >= StopAfterAttempt

\* what one GET /health attempt can do: raise, or return a response
HealthReplies ==
    {[kind |-> "exception", exc |-> x, status |-> 0, body |-> "none"] :
        x \in {"ConnectionError", "Timeout"}}
    \cup {[kind |-> "response", exc |-> "none", status |-> st, body |-> b] :
             st \in {200, 503}, b \in {"json", "key_missing", "not_json"}}

\* exception classes derived from requests.exceptions.RequestException;
\* the error raised by response.json() on a body that is not JSON is one
RequestExceptions == {"ConnectionError", "Timeout", "JSONDecodeError"}

\* an except clause that handles RetryError only
caught_retry_error_only(exc) == exc = "RetryError"

\* api_client.py:300: except (requests.exceptions.RequestException, RetryError)
caught_by_test_api_connection(exc) ==
    exc = "RetryError" \/ exc \in RequestExceptions

\* api_client.py:288-299: how test_api_connection reads a returned response
health_result(r) ==
    IF r.status = 200 THEN "ok"
    ELSE IF r.body = "not_json" THEN "json_error"
    ELSE IF r.body = "key_missing" THEN "non200_key"
    ELSE "non200"

\* the exception test_api_connection has to handle for a result, if any
health_exception(result) ==
    IF result = "retry_error" THEN "RetryError"
    ELSE IF result = "json_error" THEN "JSONDecodeError"
    ELSE "none"

InitHealth ==
    /\ OtherIdle
    /\ AnswerIdle
    /\ ConvIdle
    /\ SessionFresh
    /\ ClientIdle
    /\ UploadIdle
    /\ health_pc = "attempt"
    /\ health_log = <<>>
    /\ waits = <<>>
    /\ wait_offset \in {0, 1}
    /\ connection = None

\* one attempt of health_check inside test_api_connection: a returned
\* response ends the call, an exception is retried until the stop condition
\* turns it into RetryError
HealthCheckAttempt ==
    /\ health_pc = "attempt"
    /\ \E r \in HealthReplies :
         LET n == Len(health_log) + 1
             retry == r.kind = "exception" /\ ~stop_after_attempt(n)
             result == IF r.kind = "exception" THEN "retry_error"
                       ELSE health_result(r)
             exc == health_exception(result)
         IN
         /\ health_log' = Append(health_log, r)
         /\ IF retry
            THEN /\ health_pc' = "sleep"
                 /\ connection' = connection
            ELSE IF exc # "none" /\ ~caught_by_test_api_connection(exc)
            THEN /\ health_pc' = "raised"
                 /\ connection' = connection
            ELSE /\ health_pc' = "done"
                 /\ connection' = Some(test_api_connection(result))
    /\ UNCHANGED <<waits, wait_offset, answer_vars, conv_vars, session_vars,
                   client_vars, upload_vars, other_vars>>

\* the sleep of the retry decorator before the next attempt
HealthCheckWait ==
    /\ health_pc = "sleep"
    /\ waits' = Append(waits, wait_exponential(Len(health_log), wait_offset))
    /\ health_pc' = "attempt"
    /\ UNCHANGED <<health_log, wait_offset, connection, answer_vars,
                   conv_vars, session_vars, client_vars, upload_vars, other_vars>>

NextHealth == HealthCheckAttempt \/ HealthCheckWait

SpecHealth == InitHealth /\ [][NextHealth]_vars

AllAttemptsRaised ==
    \A i \in 1..Len(health_log) : health_log[i].kind = "exception"

HealthOver == health_pc \in {"done", "raised"}

\* C13: one call makes at most four attempts; no attempt follows one that
\* returned a response; when every attempt raised the call ends after
\* exactly four attempts and reports the failure; there is one wait between
\* consecutive attempts, the waits never decrease and never exceed 10 s
C13_HealthCheckRetried ==
    /\ Len(health_log) <= 4
    /\ \A i \in 1..(Len(health_log) - 1) : health_log[i].kind = "exception"
    /\ (HealthOver /\ AllAttemptsRaised) =>
          /\ Len(health_log) = 4
          /\ ~IsNone(connection)
          /\ ~Get(connection).is_ok
    /\ (HealthOver \/ health_pc = "sleep") =>
          Len(waits) = Len(health_log) - 1
    /\ health_pc = "attempt" => Len(waits) = Len(health_log)
    /\ \A i \in 1..Len(waits) :
          /\ waits[i] <= 10
          /\ i > 1 => waits[i - 1] <= waits[i]

\* four attempts raised, three waits were slept, the failure is reported
C13_Witness ==
    /\ health_pc = "done"
    /\ Len(health_log) = 4
    /\ AllAttemptsRaised
    /\ Len(waits) = 3
    /\ waits[3] > waits[1]
    /\ ~Get(connection).is_ok

LastReply == health_log[Len(health_log)]

\* C14: test_api_connection never raises; it returns is_ok true exactly when
\* the health response has status 200, and is_ok false with error details
\* when the retries are exhausted or the response is not a 200
C14_ConnectionTestNeverRaises ==
    /\ health_pc # "raised"
    /\ health_pc = "done" =>
          /\ ~IsNone(connection)
          /\ Get(connection).is_ok <=>
                (LastReply.kind = "response" /\ LastReply.status = 200)
          /\ ~Get(connection).is_ok =>
                "error_details" \in DOMAIN Get(connection)

\* a non-200 response whose body is not JSON came back on the second
\* attempt and was reported as a failure
C14_Witness ==
    /\ health_pc = "done"
    /\ Len(health_log) = 2
    /\ LastReply.kind = "response"
    /\ LastReply.status = 503
    /\ LastReply.body = "not_json"
    /\ Get(connection) = test_api_connection("json_error")

\* C25: when the four attempts of a call raised, the waits between them
\* were 2 s, 4 s and 8 s in that order, 14 s in total
C25_WaitsTwoFourEight ==
    (HealthOver /\ AllAttemptsRaised) => waits = <<2, 4, 8>>

\* the text of a health status code
StatusText(status) == IF status = 200 THEN "200" ELSE "503"

\* C27: a non-200 health response ends the call at the attempt that
\* received it, without a wait after it, and is reported as is_ok false
\* with the status code in error_details
C27_Non200NotRetried ==
    (HealthOver /\ LastReply.kind = "response" /\ LastReply.status # 200) =>
        /\ Len(waits) = Len(health_log) - 1
        /\ \A i \in 1..(Len(health_log) - 1) :
              health_log[i].kind = "exception"
        /\ ~IsNone(connection)
        /\ ~Get(connection).is_ok
        /\ Contains(Get(connection).error_details,
                    StatusText(LastReply.status))

--------------------------------------------------------------------------
(* The methods of APIClient against the backend
   (verba_utils/api_client.py:115-278) *)

\* keys an administrator uploads
Keys == {"sk-a", "sk-b"}

\* the masked preview the backend gives of the key it holds
key_preview(k) == IF k = "sk-a" THEN "sk-...a" ELSE "sk-...b"

\* JSON bodies of GET /get_openai_key_preview for a backend holding key
backend_key_previews(key) ==
    IF IsNone(key)
    THEN {APIKeyResponsePayload("400", "No OpenAI key set"),
          APIKeyResponsePayload("200", "")}
    ELSE {APIKeyResponsePayload("200", key_preview(Get(key)))}

\* what a key operation can do: fail to connect, be refused with a non-200
\* status, be carried out
KeyOutcomes == {"conn_error", "non200", "ok_valid"}

\* one call of a method: the outcome of its request, the valid body when
\* there is one, and [raised, value] as the method ends
ClientCall(op, outcome, body, reply) ==
    [op |-> op, outcome |-> outcome,
     body |-> IF outcome = "ok_valid" THEN Some(body) ELSE None,
     raised |-> reply.raised, value |-> reply.value]

InitClient ==
    /\ OtherIdle
    /\ AnswerIdle
    /\ ConvIdle
    /\ SessionFresh
    /\ HealthIdle
    /\ UploadIdle
    /\ backend_key = None
    /\ last_call = None

Query ==
    /\ \E outcome \in PostOutcomes, body \in QueryBodies :
         last_call' = Some(ClientCall("query", outcome, body,
                                      query(outcome, body)))
    /\ UNCHANGED <<backend_key, answer_vars, conv_vars, session_vars,
                   health_vars, upload_vars, other_vars>>

Generate ==
    /\ \E outcome \in PostOutcomes, body \in GenerateBodies :
         last_call' = Some(ClientCall("generate", outcome,
                                      GenerateResponsePayload(body),
                                      generate(outcome, body)))
    /\ UNCHANGED <<backend_key, answer_vars, conv_vars, session_vars,
                   health_vars, upload_vars, other_vars>>

GetAllDocuments ==
    /\ \E outcome \in PostOutcomes, body \in SearchBodies :
         last_call' = Some(ClientCall("get_all_documents", outcome, body,
                                      get_all_documents(outcome, body)))
    /\ UNCHANGED <<backend_key, answer_vars, conv_vars, session_vars,
                   health_vars, upload_vars, other_vars>>

GetDocument ==
    /\ \E outcome \in PostOutcomes, body \in DocumentBodies :
         last_call' = Some(ClientCall("get_document", outcome, body,
                                      get_document(outcome, body)))
    /\ UNCHANGED <<backend_key, answer_vars, conv_vars, session_vars,
                   health_vars, upload_vars, other_vars>>

LoadData ==
    /\ \E outcome \in PostOutcomes, body \in LoadBodies :
         last_call' = Some(ClientCall("load_data", outcome, body,
                                      load_data(outcome, body)))
    /\ UNCHANGED <<backend_key, answer_vars, conv_vars, session_vars,
                   health_vars, upload_vars, other_vars>>

DeleteDocument ==
    /\ \E outcome \in {"conn_error", "non200", "ok_valid"} :
         last_call' = Some(ClientCall("delete_document", outcome, TRUE,
                                      delete_document(outcome)))
    /\ UNCHANGED <<backend_key, answer_vars, conv_vars, session_vars,
                   health_vars, upload_vars, other_vars>>

ResetCache ==
    /\ \E outcome \in {"conn_error", "non200", "ok_valid"} :
         last_call' = Some(ClientCall("reset_cache", outcome, TRUE,
                                      reset_cache(outcome)))
    /\ UNCHANGED <<backend_key, answer_vars, conv_vars, session_vars,
                   health_vars, upload_vars, other_vars>>

\* the backend stores the key when it carries the request out
SetOpenaiKey ==
    /\ \E k \in Keys, outcome \in KeyOutcomes :
         LET body == APIKeyResponsePayload("200", "OpenAI key set") IN
         /\ backend_key' = IF outcome = "ok_valid" THEN Some(k)
                           ELSE backend_key
         /\ last_call' = Some(ClientCall("set_openai_key", outcome, body,
                                         set_openai_key(outcome, body)))
    /\ UNCHANGED <<answer_vars, conv_vars, session_vars, health_vars,
                   upload_vars, other_vars>>

\* the backend drops the key when it carries the request out
UnsetOpenaiKey ==
    /\ \E outcome \in {"conn_error", "ok_valid"} :
         LET body == APIKeyResponsePayload("200", "OpenAI key unset") IN
         /\ backend_key' = IF outcome = "ok_valid" THEN None ELSE backend_key
         /\ last_call' = Some(ClientCall("unset_openai_key", outcome, body,
                                         unset_openai_key(outcome, body)))
    /\ UNCHANGED <<answer_vars, conv_vars, session_vars, health_vars,
                   upload_vars, other_vars>>

GetOpenaiKeyPreview ==
    /\ \E outcome \in {"conn_error", "ok_valid"},
          body \in backend_key_previews(backend_key) :
         last_call' = Some(ClientCall("get_openai_key_preview", outcome, body,
                               get_openai_key_preview(outcome, body)))
    /\ UNCHANGED <<backend_key, answer_vars, conv_vars, session_vars,
                   health_vars, upload_vars, other_vars>>

NextClient ==
    \/ Query
    \/ Generate
    \/ GetAllDocuments
    \/ GetDocument
    \/ LoadData
    \/ DeleteDocument
    \/ ResetCache
    \/ SetOpenaiKey
    \/ UnsetOpenaiKey
    \/ GetOpenaiKeyPreview

SpecClient == InitClient /\ [][NextClient]_vars

\* the latest call was of method op
LastCallOf(op) == ~IsNone(last_call) /\ Get(last_call).op = op

\* the backend answered the latest call with a status other than 200, or
\* with a 200 whose body does not validate
AnsweredWithFailure ==
    Get(last_call).outcome \in {"non200", "ok_invalid", "ok_not_json"}

\* C15: whatever response the backend gives, query returns: a payload with
\* a system message and no documents for a non-200 or a 200 whose body
\* does not validate, the validated payload for a valid 200
C15_QueryNeverThrows ==
    (LastCallOf("query") /\ Get(last_call).outcome # "conn_error") =>
        /\ ~Get(last_call).raised
        /\ AnsweredWithFailure =>
              /\ ~IsNone(Get(Get(last_call).value).system)
              /\ Get(Get(last_call).value).documents = <<>>
        /\ Get(last_call).outcome = "ok_valid" =>
              Get(last_call).value = Get(last_call).body

\* C16: whatever response the backend gives, generate returns a payload,
\* never a missing result or an exception; for a non-200 or a 200 whose
\* body does not validate its system field is a message
C16_GenerateAlwaysReturnsPayload ==
    (LastCallOf("generate") /\ Get(last_call).outcome # "conn_error") =>
        /\ ~Get(last_call).raised
        /\ ~IsNone(Get(last_call).value)
        /\ AnsweredWithFailure =>
              Get(Get(last_call).value).system.tag = "str"

\* C17: for a non-200 or a 200 whose body does not validate,
\* get_all_documents returns a result with no documents and no document
\* types and get_document returns a record; neither raises
C17_DocumentReadsFailSoft ==
    /\ (LastCallOf("get_all_documents") /\ AnsweredWithFailure) =>
          /\ ~Get(last_call).raised
          /\ Get(Get(last_call).value).documents = <<>>
          /\ Get(Get(last_call).value).doc_types = <<>>
    /\ (LastCallOf("get_document") /\ AnsweredWithFailure) =>
          /\ ~Get(last_call).raised
          /\ ~IsNone(Get(last_call).value)

\* C18: a connection error of any method other than health_check ends in a
\* returned result, not in an exception
C18_ConnectionErrorsBecomeResults ==
    (~IsNone(last_call) /\ Get(last_call).outcome = "conn_error") =>
        /\ ~Get(last_call).raised
        /\ ~IsNone(Get(last_call).value)

\* the preview the client would return now
PreviewsNow ==
    {get_openai_key_preview("ok_valid", body).value :
        body \in backend_key_previews(backend_key)}

--------------------------------------------------------------------------
(* The "Submit documents" handler of the document admin page
   (app_pages/document_admin.py:225-288, verba_utils/utils.py:182-203) *)

\* names of the files a user uploads
FileNames == {"a.txt", "b.txt"}

\* alphabetical rank of a file name
NameRank(name) == IF name = "a.txt" THEN 1 ELSE 2

\* utils.py:196-203: the document names, sorted
get_ordered_all_filenames(documents) ==
    SortSeq([i \in 1..Len(documents) |-> documents[i].doc_name],
            LAMBDA x, y : NameRank(x) < NameRank(y))

\* utils.py:182-193: the id of the first document of that name, or None
get_doc_id_from_filename(filename, documents) ==
    LET matches == SelectSeq(documents, LAMBDA d : d.doc_name = filename)
    IN  IF matches = <<>> THEN None ELSE Some(matches[1].additional.id)

\* Python truth value of a str | None
TruthyId(id) == ~IsNone(id) /\ Get(id) # ""

\* x occurs in the list l
In(x, l) == \E i \in 1..Len(l) : l[i] = x

AdminCall(op, arg) == [op |-> op, arg |-> arg]

\* document_admin.py:245-263, files i..Len(files): the calls issued, the
\* names put in the payload, and whether a delete_document raised
RECURSIVE upload_loop(_, _, _, _, _)
upload_loop(files, i, documents, outcomes, acc) ==
    IF i > Len(files) THEN acc
    ELSE LET name == files[i]
             doc_id_to_delete == get_doc_id_from_filename(name, documents)
             deleting == /\ In(name, get_ordered_all_filenames(documents))
                         /\ TruthyId(doc_id_to_delete)
             reply == delete_document(outcomes[i])
             issued == IF deleting
                       THEN Append(acc.calls,
                                AdminCall("delete_document",
                                          Get(doc_id_to_delete)))
                       ELSE acc.calls
         IN  IF deleting /\ reply.raised
             THEN [calls |-> issued, fileNames |-> acc.fileNames,
                   raised |-> TRUE]
             ELSE upload_loop(files, i + 1, documents, outcomes,
                      [calls |-> issued,
                       fileNames |-> Append(acc.fileNames, name),
                       raised |-> FALSE])

InitUpload ==
    /\ OtherIdle
    /\ AnswerIdle
    /\ ConvIdle
    /\ SessionFresh
    /\ HealthIdle
    /\ ClientIdle
    /\ uploaded_files \in SeqsUpTo(FileNames, MaxFiles)
    /\ listing \in Listings
    /\ admin_calls = <<>>
    /\ admin_pc = "form"

\* a click on "Submit documents"
SubmitDocuments ==
    /\ admin_pc = "form"
    /\ \E list_outcome \in PostOutcomes, load_outcome \in PostOutcomes,
          delete_outcomes \in
              [1..MaxFiles -> {"conn_error", "non200", "ok_valid"}] :
         LET listed == get_all_documents(list_outcome,
                           SearchQueryResponsePayload(listing, <<>>,
                                                      "ADAEmbedder"))
             first == <<AdminCall("get_all_documents", <<>>)>>
             looped == upload_loop(uploaded_files, 1,
                           Get(listed.value).documents, delete_outcomes,
                           [calls |-> first, fileNames |-> <<>>,
                            raised |-> FALSE])
             loaded == load_data(load_outcome,
                                 LoadResponsePayload(200, "loaded"))
         IN
         IF uploaded_files = <<>>
         THEN /\ admin_calls' = <<>>
              /\ admin_pc' = "done"
         ELSE IF listed.raised
         THEN /\ admin_calls' = first
              /\ admin_pc' = "raised"
         ELSE IF looped.raised
         THEN /\ admin_calls' = looped.calls
              /\ admin_pc' = "raised"
         ELSE /\ admin_calls' =
                    Append(looped.calls,
                           AdminCall("load_data", looped.fileNames))
              /\ admin_pc' = IF loaded.raised THEN "raised" ELSE "done"
    /\ UNCHANGED <<uploaded_files, listing, answer_vars, conv_vars,
                   session_vars, health_vars, client_vars, other_vars>>

NextUpload == SubmitDocuments

SpecUpload == InitUpload /\ [][NextUpload]_vars

\* the calls of the handler to method op, in order
AdminCallsOf(op) == SelectSeq(admin_calls, LAMBDA c : c.op = op)

\* the uploaded files whose name is in the backend's listing, in order
ExistingUploads ==
    SelectSeq(uploaded_files,
              LAMBDA f : \E i \in 1..Len(listing) : listing[i].doc_name = f)

\* C20: once a non-empty upload has been submitted there is one
\* delete_document call for each uploaded file whose name is listed, for a
\* listed document of that name, and none for the other files; load_data
\* is called once, after every delete, with the names of all the files
C20_DeletesThenOneLoad ==
    (admin_pc \in {"done", "raised"} /\ uploaded_files # <<>>) =>
        /\ Len(AdminCallsOf("delete_document")) = Len(ExistingUploads)
        /\ \A k \in 1..Len(ExistingUploads) :
              \E i \in 1..Len(listing) :
                 /\ listing[i].doc_name = ExistingUploads[k]
                 /\ listing[i].additional.id =
                       AdminCallsOf("delete_document")[k].arg
        /\ Len(AdminCallsOf("load_data")) = 1
        /\ admin_calls[Len(admin_calls)] =
              AdminCall("load_data", uploaded_files)

--------------------------------------------------------------------------
(* The chatbot title kept in shelve (verba_utils/utils.py:206-246) *)

DefaultTitle == "Worldline MS Chatbot"

\* values of the environment variable WEAVIATE_TENANT, None when unset
TenantEnvs == {None, Some("default_tenant"), Some("tenant_1")}

Tenants == {"default_tenant", "tenant_1"}

Titles == {"", "HR assistant", "IT assistant"}

\* os.getenv("WEAVIATE_TENANT", default="default_tenant")
weaviate_tenant(env) == IF IsNone(env) THEN "default_tenant" ELSE Get(env)

\* one shelve file for every tenant
shelve_file_shared(tenant) == "default_tenant"

\* the shelve file of a tenant, shelve/key_cache_<tenant>
shelve_file(tenant) == tenant

\* utils.py:206-215: the shelve files after the call
store_chatbot_title(db, env, title) ==
    [db EXCEPT ![shelve_file(weaviate_tenant(env))] = Some(title)]

\* utils.py:218-233
get_chatbot_title(db, env, default_name) ==
    LET stored == db[shelve_file(weaviate_tenant(env))]
    IN  IF ~IsNone(stored) THEN Get(stored) ELSE default_name

\* utils.py:236-246: the shelve files after the call
reset_chatbot_title(db, env) ==
    [db EXCEPT ![shelve_file(weaviate_tenant(env))] = None]

TitleCall(op, env, title, result, before) ==
    [op |-> op, env |-> env, title |-> title, result |-> result,
     before |-> before]

InitTitle ==
    /\ AnswerIdle
    /\ ConvIdle
    /\ SessionFresh
    /\ HealthIdle
    /\ ClientIdle
    /\ UploadIdle
    /\ StreamIdle
    /\ PageIdle
    /\ shelves = [t \in Tenants |-> None]
    /\ title_call = None

StoreChatbotTitle ==
    /\ \E env \in TenantEnvs, title \in Titles :
         /\ shelves' = store_chatbot_title(shelves, env, title)
         /\ title_call' = Some(TitleCall("store_chatbot_title", env, title,
                                         "", shelves))
    /\ UNCHANGED <<answer_vars, conv_vars, session_vars, health_vars,
                   client_vars, upload_vars, stream_vars, page_vars>>

GetChatbotTitle ==
    /\ \E env \in TenantEnvs :
         title_call' = Some(TitleCall("get_chatbot_title", env, "",
                               get_chatbot_title(shelves, env, DefaultTitle),
                               shelves))
    /\ UNCHANGED <<shelves, answer_vars, conv_vars, session_vars,
                   health_vars, client_vars, upload_vars, stream_vars,
                   page_vars>>

ResetChatbotTitle ==
    /\ \E env \in TenantEnvs :
         /\ shelves' = reset_chatbot_title(shelves, env)
         /\ title_call' = Some(TitleCall("reset_chatbot_title", env, "", "",
                                         shelves))
    /\ UNCHANGED <<answer_vars, conv_vars, session_vars, health_vars,
                   client_vars, upload_vars, stream_vars, page_vars>>

NextTitle == StoreChatbotTitle \/ GetChatbotTitle \/ ResetChatbotTitle

SpecTitle == InitTitle /\ [][NextTitle]_vars

\* the latest title operation was op
LastTitleCall(op) == ~IsNone(title_call) /\ Get(title_call).op = op

\* the tenant of the latest title operation
CallTenant == weaviate_tenant(Get(title_call).env)

\* C24: get_chatbot_title returns the default title when the tenant has no
\* stored title and the stored title otherwise; right after
\* store_chatbot_title(t) it returns t, right after reset_chatbot_title the
\* default; an operation of one tenant leaves the title every other tenant
\* sees as it was
C24_TitleRoundTrip ==
    /\ LastTitleCall("get_chatbot_title") =>
          Get(title_call).result =
              IF IsNone(shelves[CallTenant]) THEN DefaultTitle
              ELSE Get(shelves[CallTenant])
    /\ LastTitleCall("store_chatbot_title") =>
          get_chatbot_title(shelves, Get(title_call).env, DefaultTitle) =
              Get(title_call).title
    /\ LastTitleCall("reset_chatbot_title") =>
          get_chatbot_title(shelves, Get(title_call).env, DefaultTitle) =
              DefaultTitle
    /\ ~IsNone(title_call) =>
          \A t \in Tenants \ {CallTenant} :
             get_chatbot_title(shelves, Some(t), DefaultTitle) =
                get_chatbot_title(Get(title_call).before, Some(t),
                                  DefaultTitle)

\* tenant_1 has just stored a title while the default tenant keeps one of
\* its own
C24_Witness ==
    /\ LastTitleCall("store_chatbot_title")
    /\ CallTenant = "tenant_1"
    /\ Get(title_call).title = "HR assistant"
    /\ shelves["default_tenant"] = Some("")
    /\ shelves["tenant_1"] = Some("HR assistant")

--------------------------------------------------------------------------
(* The streaming loop of the chatbot page
   (app_pages/chatbot.py:40-46, 156-183) *)

\* fragments of an answer, as code points: "", "H", "i!"
Fragments == {<<>>, <<72>>, <<105, 33>>}

\* iterator.__anext__() after k fragments were delivered: the next
\* fragment, or None for StopAsyncIteration when the stream is exhausted
anext(fragments, k) ==
    IF k < Len(fragments) THEN Some(fragments[k + 1]) ELSE None

\* a loop that shows the latest fragment only
stream_chat_latest(chunck_response, response_so_far) == chunck_response

\* chatbot.py:40-46: curr_response += chunck_response
stream_chat(chunck_response, response_so_far) ==
    response_so_far \o chunck_response

InitStream ==
    /\ AnswerIdle
    /\ ConvIdle
    /\ SessionFresh
    /\ HealthIdle
    /\ ClientIdle
    /\ UploadIdle
    /\ TitleIdle
    /\ PageIdle
    /\ stream \in SeqsUpTo(Fragments, MaxFragments)
    /\ pulled = 0
    /\ curr_response = <<>>
    /\ full_response = None
    /\ stream_pc = "pulling"

\* chatbot.py:169-178: one pass of the loop that receives a fragment
StreamChat ==
    /\ stream_pc = "pulling"
    /\ ~IsNone(anext(stream, pulled))
    /\ curr_response' = stream_chat(Get(anext(stream, pulled)), curr_response)
    /\ pulled' = pulled + 1
    /\ UNCHANGED <<stream, full_response, stream_pc, answer_vars, conv_vars,
                   session_vars, health_vars, client_vars, upload_vars,
                   title_vars, page_vars>>

\* chatbot.py:180-183: the pass in which __anext__ raises
\* StopAsyncIteration; the loop is left and full_response is set
StreamExhausted ==
    /\ stream_pc = "pulling"
    /\ IsNone(anext(stream, pulled))
    /\ full_response' = Some(curr_response)
    /\ stream_pc' = "done"
    /\ UNCHANGED <<stream, pulled, curr_response, answer_vars, conv_vars,
                   session_vars, health_vars, client_vars, upload_vars,
                   title_vars, page_vars>>

NextStream == StreamChat \/ StreamExhausted

SpecStream == InitStream /\ [][NextStream]_vars

\* the loop is a synchronous while True: it keeps pulling
SpecStreamLive == SpecStream /\ WF_vars(NextStream)

RECURSIVE Concatenation(_)
\* f1 + ... + fn
Concatenation(fragments) ==
    IF fragments = <<>> THEN <<>>
    ELSE Head(fragments) \o Concatenation(Tail(fragments))

\* the running response is the fragments received so far, in order; once
\* the loop is over every fragment was received and is in full_response
ResponseIsConcatenation ==
    /\ pulled <= Len(stream)
    /\ curr_response = Concatenation(SubSeq(stream, 1, pulled))
    /\ stream_pc = "done" =>
          /\ pulled = Len(stream)
          /\ full_response = Some(Concatenation(stream))
    /\ stream_pc = "pulling" => IsNone(full_response)

\* C23: for every finite stream the loop ends once the stream is
\* exhausted; after the k-th pull the running response is f1 + ... + fk and
\* the final response is the concatenation of all the fragments in the
\* order received
C23_StreamConcatenated ==
    /\ []ResponseIsConcatenation
    /\ <>(stream_pc = "done")

\* a stream of three fragments, two of them different and not empty, was
\* received in full
C23_Witness ==
    /\ stream_pc = "done"
    /\ stream = <<<<72>>, <<105, 33>>, <<72>>>>
    /\ full_response = Some(<<72, 105, 33, 72>>)

--------------------------------------------------------------------------
(* Administration page (app_pages/admin.py:38-162) and the "Remove
   uploaded documents" tab of the document administration page
   (app_pages/document_admin.py:290-358), one action per page run *)

\* what test_api_connection can give a page
HealthResults == {"ok", "non200", "non200_key"}

\* the state a page derives from is_verba_responding (admin.py:48-50,
\* chatbot.py:72-90, source_documents.py:36-51, document_admin.py:75-93)
health_gate(is_verba_responding) ==
    IF is_verba_responding.is_ok THEN "connected"
    ELSE IF Contains(is_verba_responding.error_details, KeyMarker)
         THEN "key_not_set"
         ELSE "failed"

\* whether the page shows its content: the administration page hides it for
\* a failure without the marker only, the other pages for every failure
page_rendered(page, gate) ==
    IF page = "admin" THEN gate # "failed" ELSE gate = "connected"

\* a control that acts as soon as its button is pressed
confirmed_by_button_alone(checkbox, button) == button

\* admin.py:94-95, admin.py:155-157, document_admin.py:343-346: the checkbox
\* is checked and the confirmation button is pressed
confirmed(checkbox, button) == checkbox /\ button

\* APIClient.test_openai_api_key (api_client.py:276-278): [raised, value]
test_openai_api_key(outcome) ==
    IF Propagates(outcome) THEN [raised |-> TRUE, value |-> None]
    ELSE [raised |-> FALSE,
          value |-> Some(APIKeyResponsePayload("200", "key is working"))]

\* what the user did on the administration page: the button pressed in this
\* run if any, the text of the form submitted, the checkboxes checked
AdminUi ==
    LET Checked == SUBSET {"unset_openai_key", "reset_cache"} IN
    {[pressed |-> b, text |-> "", checked |-> c] :
        b \in {"none", "test_key", "unset_openai_key", "remove_title",
               "reset_cache"},
        c \in Checked}
    \cup {[pressed |-> "submit_key", text |-> k, checked |-> c] :
            k \in {"", "sk-a"}, c \in Checked}
    \cup {[pressed |-> "submit_title", text |-> t, checked |-> c] :
            t \in {"", "HR assistant"}, c \in Checked}

\* one page run: the page, the health result and the state derived from it,
\* whether the key form was rendered, the user's input, the operations
\* issued, the documents listed and the (id, name) pairs handed to
\* delete_document, whether the run ended in an exception, and whether the
\* session of its client was closed when the run ended
PageRun(page, health, gate, key_form, pressed, checked, issued, documents, deletes, raised, closed) ==
    [page |-> page, health |-> health, gate |-> gate, key_form |-> key_form,
     pressed |-> pressed, checked |-> checked, issued |-> issued,
     documents |-> documents, deletes |-> deletes, raised |-> raised,
     closed |-> closed]

InitAdmin ==
    /\ AnswerIdle
    /\ ConvIdle
    /\ SessionFresh
    /\ HealthIdle
    /\ UploadIdle
    /\ StreamIdle
    /\ PageIdle
    /\ backend_key \in {None, Some("sk-b")}
    /\ last_call = None
    /\ shelves = [t \in Tenants |-> None]
    /\ title_call = None

\* how a run of the page went: whether the key form was rendered, the
\* operations issued, whether an exception ended the run
AdminRun(key_form, issued, raised) ==
    [key_form |-> key_form, issued |-> issued, raised |-> raised]

\* admin.py:48-162, section by section; one button at most is pressed in a
\* run, so one section at most acts after the key preview, and an exception
\* in a section ends the run before the sections below it
admin_page(ui, rendered, preview, op_outcome, test_outcome) ==
    LET first == {"get_openai_key_preview"} IN
    \* admin.py:48-62
    IF ~rendered THEN AdminRun(FALSE, {}, FALSE)
    \* admin.py:75
    ELSE IF preview.raised THEN AdminRun(FALSE, first, TRUE)
    \* admin.py:76, 89-91
    ELSE IF Get(preview.value) # "" /\ ui.pressed = "test_key"
    THEN LET raised == test_openai_api_key(test_outcome).raised
         IN  AdminRun(~raised, first \cup {"test_openai_api_key"}, raised)
    \* admin.py:76, 93-101
    ELSE IF /\ Get(preview.value) # ""
            /\ confirmed("unset_openai_key" \in ui.checked,
                         ui.pressed = "unset_openai_key")
    THEN LET raised ==
                 unset_openai_key(op_outcome,
                     APIKeyResponsePayload("200", "OpenAI key unset")).raised
         IN  AdminRun(~raised, first \cup {"unset_openai_key"}, raised)
    \* admin.py:110-129
    ELSE IF ui.pressed = "submit_key" /\ ui.text # ""
    THEN LET res == set_openai_key(op_outcome,
                        APIKeyResponsePayload("200", "OpenAI key set"))
         IN  IF res.raised
             THEN AdminRun(TRUE, first \cup {"set_openai_key"}, TRUE)
             ELSE IF key_uploaded(Get(res.value))
             THEN AdminRun(TRUE,
                      first \cup {"set_openai_key", "test_openai_api_key"},
                      test_openai_api_key(test_outcome).raised)
             ELSE AdminRun(TRUE, first \cup {"set_openai_key"}, FALSE)
    \* admin.py:131-151
    ELSE IF ui.pressed = "submit_title" /\ ui.text # ""
    THEN AdminRun(TRUE, first \cup {"store_chatbot_title"}, FALSE)
    ELSE IF ui.pressed = "remove_title"
    THEN AdminRun(TRUE, first \cup {"reset_chatbot_title"}, FALSE)
    \* admin.py:152-162
    ELSE IF confirmed("reset_cache" \in ui.checked, ui.pressed = "reset_cache")
    THEN AdminRun(TRUE, first \cup {"reset_cache"},
                  reset_cache(op_outcome).raised)
    ELSE AdminRun(TRUE, first, FALSE)

\* one run of app_pages/admin.py. The client is created at admin.py:44
\* outside any with block and close_session is never called: its session
\* is open when the run ends. The backend stores or drops the key when it
\* carries the request out; the page runs without WEAVIATE_TENANT set
admin ==
    \E ui \in AdminUi, health \in HealthResults :
      LET is_verba_responding == test_api_connection(health)
          gate == health_gate(is_verba_responding)
          rendered == page_rendered("admin", gate)
      IN
      \E preview_outcome \in
            (IF rendered THEN {"conn_error", "ok_valid"} ELSE {"ok_valid"}),
         preview_body \in backend_key_previews(backend_key),
         op_outcome \in
            (IF rendered /\ ui.pressed \in {"unset_openai_key", "submit_key",
                                            "reset_cache"}
             THEN KeyOutcomes ELSE {"ok_valid"}),
         test_outcome \in
            (IF rendered /\ ui.pressed \in {"test_key", "submit_key"}
             THEN {"conn_error", "ok_valid"} ELSE {"ok_valid"}) :
        LET run == admin_page(ui, rendered,
                       get_openai_key_preview(preview_outcome, preview_body),
                       op_outcome, test_outcome)
            carried_out == op_outcome = "ok_valid"
        IN
        /\ page_run' =
              Some(PageRun("admin", health, gate, run.key_form, ui.pressed,
                           ui.checked, run.issued, <<>>, <<>>, run.raised,
                           FALSE))
        /\ backend_key' =
              IF "unset_openai_key" \in run.issued /\ carried_out THEN None
              ELSE IF "set_openai_key" \in run.issued /\ carried_out
              THEN Some(ui.text)
              ELSE backend_key
        /\ shelves' =
              IF "store_chatbot_title" \in run.issued
              THEN store_chatbot_title(shelves, None, ui.text)
              ELSE IF "reset_chatbot_title" \in run.issued
              THEN reset_chatbot_title(shelves, None)
              ELSE shelves
        /\ UNCHANGED <<last_call, title_call, upload_vars, answer_vars,
                       conv_vars, session_vars, health_vars, stream_vars>>

NextAdmin == admin

SpecAdmin == InitAdmin /\ [][NextAdmin]_vars

\* document_admin.py:30-58, pairs i.. of zip(docs_to_delete_id,
\* docs_to_delete): the (id, name) pairs handed to delete_document and
\* whether a delete_document raised
RECURSIVE delete_documents(_, _, _, _, _)
delete_documents(docs_to_delete_id, docs_to_delete, outcomes, i, acc) ==
    IF i > Len(docs_to_delete_id) \/ i > Len(docs_to_delete) THEN acc
    ELSE LET sent == Append(acc.deletes,
                         [id |-> docs_to_delete_id[i],
                          name |-> docs_to_delete[i],
                          outcome |-> outcomes[i]])
         IN  IF delete_document(outcomes[i]).raised
             THEN [deletes |-> sent, raised |-> TRUE]
             ELSE delete_documents(docs_to_delete_id, docs_to_delete,
                                   outcomes, i + 1,
                                   [deletes |-> sent, raised |-> FALSE])

\* what the multiselect of the tab can hold: nothing, one name, every name
Selections(names) ==
    {<<>>, names} \cup {<<names[i]>> : i \in 1..Len(names)}

\* the documents the backend holds after the delete requests it carried out
after_deletes(documents, deletes) ==
    SelectSeq(documents,
        LAMBDA d : ~\E i \in 1..Len(deletes) :
                      /\ deletes[i].outcome = "ok_valid"
                      /\ deletes[i].id = Some(d.additional.id))

InitDocumentAdmin ==
    /\ AnswerIdle
    /\ ConvIdle
    /\ SessionFresh
    /\ HealthIdle
    /\ ClientIdle
    /\ TitleIdle
    /\ StreamIdle
    /\ PageIdle
    /\ uploaded_files = <<>>
    /\ listing \in Listings
    /\ admin_calls = <<>>
    /\ admin_pc = "idle"

\* one run of the "Remove uploaded documents" tab, reached with the API
\* responding; the tab's client is created by a with statement
\* (document_admin.py:290), its session is closed however the block ends
delete_tab ==
    \E pressed \in {"none", "delete_documents", "delete_all_documents"},
       checked \in SUBSET {"delete_all_documents"},
       list_outcome \in PostOutcomes :
      LET \* document_admin.py:291
          all_documents ==
              get_all_documents(list_outcome,
                  SearchQueryResponsePayload(listing, <<>>, "ADAEmbedder"))
          documents == IF all_documents.raised THEN <<>>
                       ELSE Get(all_documents.value).documents
      IN
      \E docs_to_delete \in Selections(get_ordered_all_filenames(documents)) :
      \E document_outcome \in
            (IF docs_to_delete = <<>> THEN {"ok_valid"}
             ELSE {"conn_error", "ok_valid"}) :
        LET \* document_admin.py:309-315
            docs_to_delete_id ==
                [i \in 1..Len(docs_to_delete) |->
                    get_doc_id_from_filename(docs_to_delete[i], documents)]
            \* document_admin.py:317-334
            raised_preview ==
                /\ docs_to_delete # <<>>
                /\ get_document(document_outcome,
                       GetDocumentResponsePayload("a.txt", "lorem")).raised
            \* document_admin.py:335-339
            deleting == /\ docs_to_delete # <<>>
                        /\ ~raised_preview
                        /\ pressed = "delete_documents"
            \* document_admin.py:341-355
            deleting_all ==
                /\ Len(documents) > 0
                /\ ~raised_preview
                /\ confirmed("delete_all_documents" \in checked,
                             pressed = "delete_all_documents")
            all_docs_id ==
                [i \in 1..Len(documents) |->
                    get_doc_id_from_filename(documents[i].doc_name,
                                             documents)]
            all_docs_name == get_ordered_all_filenames(documents)
            requests == IF deleting THEN Len(docs_to_delete)
                        ELSE IF deleting_all THEN Len(documents)
                        ELSE 0
        IN
        \E outcomes \in [1..requests ->
                            {"conn_error", "non200", "ok_valid"}] :
          LET start == [deletes |-> <<>>, raised |-> FALSE]
              done ==
                  IF deleting
                  THEN delete_documents(docs_to_delete_id, docs_to_delete,
                                        outcomes, 1, start)
                  ELSE IF deleting_all
                  THEN delete_documents(all_docs_id, all_docs_name, outcomes,
                                        1, start)
                  ELSE start
              issued ==
                  {"get_all_documents"}
                  \cup (IF docs_to_delete # <<>> THEN {"get_document"}
                        ELSE {})
                  \cup (IF deleting THEN {"delete_documents"} ELSE {})
                  \cup (IF deleting_all THEN {"delete_all_documents"}
                        ELSE {})
          IN
          /\ page_run' =
                Some(PageRun("document_admin", "ok", "connected", FALSE,
                             pressed, checked, issued, documents,
                             [i \in 1..Len(done.deletes) |->
                                 [id |-> done.deletes[i].id,
                                  name |-> done.deletes[i].name]],
                             \/ all_documents.raised
                             \/ raised_preview
                             \/ done.raised,
                             TRUE))
          /\ listing' = after_deletes(listing, done.deletes)
          /\ UNCHANGED <<uploaded_files, admin_calls, admin_pc, client_vars,
                         title_vars, answer_vars, conv_vars, session_vars,
                         health_vars, stream_vars>>

NextDocumentAdmin == delete_tab

SpecDocumentAdmin == InitDocumentAdmin /\ [][NextDocumentAdmin]_vars

\* the latest page run was a run of page
RunOf(page) == ~IsNone(page_run) /\ Get(page_run).page = page

\* C21: delete all documents, reset_cache and unset_openai_key are issued
\* only in a page run in which the checkbox of the operation is checked and
\* its confirmation button is pressed
C21_DestructiveOnlyConfirmed ==
    ~IsNone(page_run) =>
        \A op \in {"delete_all_documents", "reset_cache", "unset_openai_key"} :
            op \in Get(page_run).issued =>
                /\ op \in Get(page_run).checked
                /\ Get(page_run).pressed = op

\* a confirmed "Delete API key" sent unset_openai_key
C21_Witness ==
    /\ RunOf("admin")
    /\ Get(page_run).issued = {"get_openai_key_preview", "unset_openai_key"}
    /\ Get(page_run).checked = {"unset_openai_key"}
    /\ Get(page_run).pressed = "unset_openai_key"
    /\ ~Get(page_run).raised

\* C22: the session of every APIClient a page constructs is closed before
\* the page run ends, on every exit path
C22_ClientReleased ==
    ~IsNone(page_run) => Get(page_run).closed

\* C26: a failed health check whose details hold the key marker is the
\* distinct "key not set" state; on the administration page that state
\* renders the key form, every other health failure hides it
C26_KeyNotSetKeepsKeyForm ==
    RunOf("admin") =>
        /\ Get(page_run).health = "non200_key" <=>
              Get(page_run).gate = "key_not_set"
        /\ Get(page_run).gate = "key_not_set" => Get(page_run).key_form
        /\ Get(page_run).gate = "failed" => ~Get(page_run).key_form

\* the documents of the listing whose id and name are those of the pair
DocumentsOf(pair, documents) ==
    {j \in 1..Len(documents) :
        /\ Some(documents[j].additional.id) = pair.id
        /\ documents[j].doc_name = pair.name}

\* C29: in "delete all documents" the ids and the names handed to
\* delete_documents are aligned index by index whatever the order of the
\* listing, and delete_document is sent exactly once per listed document,
\* also after a delete that failed
C29_DeleteAllAligned ==
    (RunOf("document_admin")
        /\ "delete_all_documents" \in Get(page_run).issued) =>
        LET documents == Get(page_run).documents
            deletes == Get(page_run).deletes
        IN  /\ Len(deletes) = Len(documents)
            /\ \A i \in 1..Len(deletes) :
                  DocumentsOf(deletes[i], documents) # {}
            /\ \A j \in 1..Len(documents) :
                  Cardinality({i \in 1..Len(deletes) :
                      deletes[i].id = Some(documents[j].additional.id)}) = 1

--------------------------------------------------------------------------
(* Answers, recorded retrievals and client scopes of the chatbot page *)

\* the prompts of the user turns directly followed by a system turn
AnsweredPrompts ==
    IF IsNone(messages) THEN {}
    ELSE {Get(Get(messages)[i].content) :
            i \in {j \in 1..(Len(Get(messages)) - 1) :
                     /\ Get(messages)[j].type = Some("user")
                     /\ Get(messages)[j + 1].type = Some("system")}}

RecordedPrompts ==
    {get_prompt_history(retrieved_documents)[i] :
        i \in 1..Len(get_prompt_history(retrieved_documents))}

\* C28: every prompt whose generated answer was appended to the
\* conversation also has its retrieved documents recorded, with streaming
\* and without
C28_AnsweredPromptsRecorded == AnsweredPrompts \subseteq RecordedPrompts

\* the client of event i entered its with block before i and has not left it
InScope(events, i) ==
    \E j \in 1..(i - 1) :
        /\ events[j] = ClientEnter(events[i].client)
        /\ \A k \in (j + 1)..(i - 1) : events[k] # ClientExit(events[i].client)

\* C30: every request sent during a run of the chatbot page is sent on an
\* APIClient that is still inside its with block
C30_RequestsInsideScope ==
    \A i \in 1..Len(run_clients) :
        run_clients[i].event = "request" => InScope(run_clients, i)

--------------------------------------------------------------------------
(* The session lists between two resets *)

\* the list held under a session key, empty when the key is absent
Held(o) == IF IsNone(o) THEN <<>> ELSE Get(o)

\* every entry of old is in new, at the same position
Extends(old, new) ==
    /\ Len(old) <= Len(new)
    /\ \A i \in 1..Len(old) : new[i] = old[i]

\* the latest page run that got past the health probe was a reset
AfterReset == run_kind = Some("reset")

\* C11: a step that is not a reset keeps every entry of the message list
\* and of the retrieved-documents list unchanged and in place, new entries
\* going to the end; a retrieval recorded for a prompt that already has a
\* record leaves the earlier record where it was
C11_ListsAppendOnly ==
    [][ AfterReset' \/
        /\ Extends(Held(messages), Held(messages'))
        /\ Extends(Held(retrieved_documents), Held(retrieved_documents'))
      ]_vars

\* the same prompt was recorded twice with different chunks and both
\* records are in the list, after two question and answer pairs
C11_Witness ==
    /\ Len(Entries) = 2
    /\ Entries[1].prompt = Entries[2].prompt
    /\ Entries[1].documents # Entries[2].documents
    /\ Len(Held(messages)) = 5
    /\ run_kind = Some("submit")

\* C12: right after a reset the message list holds the welcome message
\* only, the prompt history is empty and the conversation built from the
\* messages is empty; a step that is not a reset shortens neither list
C12_ResetClearsBoth ==
    [][ /\ AfterReset' =>
            /\ messages' = Some(<<WelcomeMessage>>)
            /\ retrieved_documents' = None
            /\ get_prompt_history(retrieved_documents') = <<>>
            /\ create_conversation_items(Get(messages')) = <<>>
        /\ ~AfterReset' =>
            /\ Len(Held(messages')) >= Len(Held(messages))
            /\ Len(Held(retrieved_documents')) >=
                  Len(Held(retrieved_documents))
      ]_vars

\* a reset has just cleared a session that had recorded a retrieval
C12_Witness ==
    /\ AfterReset
    /\ messages = Some(<<WelcomeMessage>>)
    /\ retrieved_documents = None
    /\ ~IsNone(chosen_prompt)

==========================================================================
